---- MODULE Spec2Model ----
(***************************************************************************)
(* Model of sotorch.opt.Minimizer (src/sotorch/opt.py): the adapter that   *)
(* hands a PyTorch objective to scipy.optimize.minimize.  One Minimizer    *)
(* object is modelled; its minimize method is cut at the points where      *)
(* control passes to the external solver (the solver is invoked, the       *)
(* solver calls back _obj_npy/_jac_npy/_hess_npy, the solver returns).     *)
(* Tensors and arrays are modelled by their shape; a solver result is      *)
(* modelled by its shape and the number of the invocation that made it.    *)
(***************************************************************************)
EXTENDS Integers, Sequences, FiniteSets, TLC

\* ------------------------------------------------------------------ bounds
MaxB     == 2   \* largest leading (batch) dimension of x0
MaxEvals == 2   \* callbacks the solver makes during one invocation
MaxVal   == 1   \* finite objective values are 0..MaxVal
MaxCalls == 2   \* minimize calls made on the one Minimizer

VARIABLES
    min_obj,    \* self.min_obj
    pc,         \* "idle" | "solving" | "returned" | "raised"
    err,        \* the exception type a raised call ended with, else ""
    kwargs,     \* the **kwargs of the current call
    x0_arg,     \* the shape of the x0 the current call was passed
    loc,        \* the locals of minimize that are set up before the first solve
    i,          \* loop index of the batch loop (0-based, as enumerate)
    all_res,    \* all_res (batch) : the res.x collected so far
    suc,        \* suc
    msg,        \* msg
    ans,        \* the returned tensor: its shape and, per row, the invocation it came from
    calls,      \* history: what each solver invocation of this call was handed
    rets,       \* history: the result object each solver invocation of this call returned
    evals,      \* history: the set of values _obj_npy returned during this call
    resets,     \* history: how often this call assigned float('inf') to min_obj
    nevals,     \* callbacks made during the current solver invocation
    last,       \* the operation that made the last step
    ncalls      \* minimize calls made so far

vars == <<min_obj, pc, err, kwargs, x0_arg, loc, i, all_res, suc, msg, ans, calls,
          rets, evals, resets, nevals, last, ncalls>>

\* ------------------------------------------------------- Python values
\* A Python value is a tagged record; Absent stands for a key not in kwargs.
Absent      == [t |-> "absent", v |-> <<>>]
PyNone      == [t |-> "None", v |-> <<>>]
PyBool(x)   == [t |-> "bool", v |-> <<x>>]
PyNum(n)    == [t |-> "num", v |-> <<n>>]
PyStr(s)    == [t |-> "str", v |-> <<s>>]
PyTuple(s)  == [t |-> "tuple", v |-> s]
PyList(s)   == [t |-> "list", v |-> s]
PyDict      == [t |-> "dict", v |-> <<>>]          \* a non-empty dict without integer keys
Callable(f) == [t |-> "callable", v |-> <<f>>]

Keys == {"args", "method", "jac", "hess", "hessp", "bounds", "options",
         "constraints", "tol", "callback", "batchwise"}

\* 'k' in kwargs
Has(kw, k) == kw[k] # Absent

\* a == b on the values above
PyEq(a, b) == a = b

\* truth value of a Python value (if batchwise:)
Truthy(a) ==
    CASE a.t = "bool" -> a.v[1]
      [] a.t = "num" -> a.v[1] # 0
      [] a.t \in {"tuple", "list"} -> a.v # <<>>
      [] a.t = "str" -> Len(a.v[1]) # 0
      [] a.t = "None" -> FALSE
      [] OTHER -> TRUE

\* [a] * n
Repeat(a, n) == PyList([k \in 1..n |-> a])

\* a[i] for a 0-based index i: the element, or the exception Python raises
Index(a, idx) ==
    CASE a.t \in {"tuple", "list"} ->
            IF idx < Len(a.v)
            THEN [err |-> "", val |-> a.v[idx + 1]]
            ELSE [err |-> "IndexError", val |-> PyNone]
      [] a.t = "str" ->
            IF idx < Len(a.v[1])
            THEN [err |-> "", val |-> PyStr(SubSeq(a.v[1], idx + 1, idx + 1))]
            ELSE [err |-> "IndexError", val |-> PyNone]
      [] a.t = "dict" -> [err |-> "KeyError", val |-> PyNone]
      [] OTHER -> [err |-> "TypeError", val |-> PyNone]

\* ------------------------------------------------------- floats
FloatInf == [k |-> "inf", n |-> 0]
NaN      == [k |-> "nan", n |-> 0]
Fin(n)   == [k |-> "fin", n |-> n]

\* a < b on floats: every comparison with nan is False
Lt(a, b) ==
    CASE a.k = "nan" \/ b.k = "nan" -> FALSE
      [] a.k = "inf" -> FALSE
      [] b.k = "inf" -> TRUE
      [] OTHER -> a.n < b.n

\* the builtin min(a, b): the first argument unless the second is smaller
PyMin(a, b) == IF Lt(b, a) THEN b ELSE a

\* ------------------------------------------------------- numpy shapes
RECURSIVE Prod(_)
Prod(s) == IF s = <<>> THEN 1 ELSE Head(s) * Prod(Tail(s))

\* ndarray.reshape(b, -1) on an array of shape s
ReshapeRows(s, rows) ==
    IF rows = 0 \/ Prod(s) % rows # 0
    THEN [err |-> "ValueError", shape |-> <<>>]
    ELSE [err |-> "", shape |-> <<rows, Prod(s) \div rows>>]

\* ndarray.reshape(-1) on an array of shape s
ReshapeFlat(s) == <<Prod(s)>>

\* ndarray.reshape(target) on an array of shape s, target without -1
Reshape(s, target) ==
    IF Prod(s) = Prod(target)
    THEN [err |-> "", shape |-> target]
    ELSE [err |-> "ValueError", shape |-> <<>>]

\* np.array(all_res) for a list of equally long flat vectors
NpArray(rs) ==
    IF rs = <<>> THEN <<0>> ELSE <<Len(rs)>> \o rs[1].shape

\* ------------------------------------------------------- capability resolution
GradMethods == {"CG", "BFGS", "Newton-CG", "L-BFGS-B", "TNC", "SLSQP", "dogleg",
                "trust-ncg", "trust-krylov", "trust-exact", "trust-constr"}
HessMethods == {"Newton-CG", "dogleg", "trust-ncg", "trust-krylov", "trust-exact",
                "trust-constr"}

\* method in [...]: list membership compares with ==
InList(m, names) == \E name \in names : PyEq(m, PyStr(name))

\* kwargs[k] if k in kwargs else d
Get(kw, k, d) == IF Has(kw, k) THEN kw[k] ELSE d

\* ResolveJac with a fault: a jac the user passed is handed on to the solver
ResolveJacPassThrough(kw, method) ==
    IF Has(kw, "jac") THEN kw["jac"]
    ELSE IF InList(method, GradMethods) THEN Callable("_jac_npy")
    ELSE PyNone

ResolveJac(kw, method) ==
    IF Has(kw, "jac") /\ PyEq(kw["jac"], PyNone) THEN PyNone
    ELSE IF InList(method, GradMethods) THEN Callable("_jac_npy")
    ELSE PyNone

ResolveHess(kw, method) ==
    IF Has(kw, "hess") /\ PyEq(kw["hess"], PyNone) THEN PyNone
    ELSE IF InList(method, HessMethods) THEN Callable("_hess_npy")
    ELSE PyNone

\* ------------------------------------------------------- minimize, as a function of its state
NoAns == [shape |-> <<>>, rows |-> <<>>]

\* the locals before anything is assigned
BlankLoc ==
    [args |-> Absent, method |-> Absent, jac |-> Absent, hess |-> Absent,
     bounds |-> Absent, options |-> Absent, constraints |-> Absent, tol |-> Absent,
     callback |-> Absent, batchwise |-> Absent, x0 |-> <<>>, x0_shape |-> <<>>, b |-> 0]

\* the frame of a call that has just been entered; mo is self.min_obj
Frame(mo) ==
    [pc |-> "entry", err |-> "", min_obj |-> mo, loc |-> BlankLoc, i |-> 0,
     all_res |-> <<>>, suc |-> <<>>, msg |-> <<>>, ans |-> NoAns, calls |-> <<>>,
     resets |-> 0]

Raised(st, e) == [st EXCEPT !.pc = "raised", !.err = e]

\* control passes to scipy.optimize.minimize with the arguments c
Invoke(st, c) == [st EXCEPT !.pc = "solving", !.calls = Append(@, c)]

\* lines 65-111: the options are read into locals
Extract(st, x0arg, kw) ==
    LET method == Get(kw, "method", PyNone) IN
    [st EXCEPT !.loc =
        [args |-> kw["args"],
         method |-> method,
         jac |-> ResolveJac(kw, method),
         hess |-> ResolveHess(kw, method),
         bounds |-> Get(kw, "bounds", PyNone),
         options |-> Get(kw, "options", PyNone),
         constraints |-> Get(kw, "constraints", PyTuple(<<>>)),
         tol |-> Get(kw, "tol", PyNone),
         callback |-> Get(kw, "callback", PyNone),
         batchwise |-> kw["batchwise"],
         x0 |-> x0arg, x0_shape |-> x0arg, b |-> 0]]

\* line 115
ResetMin(st) == [st EXCEPT !.min_obj = FloatInf, !.resets = @ + 1]

\* lines 123-130: the per-instance options of a batch
NormBounds(bounds, b) == IF bounds = PyNone THEN Repeat(PyNone, b) ELSE bounds
NormArgs(args, b) ==
    IF PyEq(args, PyTuple(<<>>)) \/ PyEq(args, PyList(<<>>)) \/ args = PyNone
    THEN Repeat(PyNone, b) ELSE args
NormConstraints(constraints, b) ==
    IF PyEq(constraints, PyTuple(<<>>)) THEN Repeat(PyTuple(<<>>), b) ELSE constraints
NormTol(tol, b) == IF tol = PyNone THEN Repeat(PyNone, b) ELSE tol

\* Assemble with a fault: the result is returned as the solver left it, not reshaped
AssembleNoReshape(st, resShape, rows) ==
    [st EXCEPT !.pc = "returned", !.ans = [shape |-> resShape, rows |-> rows]]

\* lines 165-167: res.reshape(x0_shape), then the return
Assemble(st, resShape, rows) ==
    LET r == Reshape(resShape, st.loc.x0_shape) IN
    IF r.err # "" THEN Raised(st, r.err)
    ELSE [st EXCEPT !.pc = "returned", !.ans = [shape |-> r.shape, rows |-> rows]]

\* lines 132-142 and 146: the head of the batch loop at index st.i
BatchStep(st) ==
    LET l == st.loc IN
    IF st.i < l.b
    THEN LET a == Index(l.args, st.i)
             bd == Index(l.bounds, st.i)
             cn == Index(l.constraints, st.i)
             tl == Index(l.tol, st.i)
         IN  IF a.err # "" THEN Raised(st, a.err)
             ELSE IF bd.err # "" THEN Raised(st, bd.err)
             ELSE IF cn.err # "" THEN Raised(st, cn.err)
             ELSE IF tl.err # "" THEN Raised(st, tl.err)
             ELSE Invoke(st, [x0 |-> [inst |-> st.i, shape |-> Tail(l.x0)],
                              args |-> a.val, method |-> l.method, jac |-> l.jac,
                              hess |-> l.hess, bounds |-> bd.val,
                              options |-> l.options, constraints |-> cn.val,
                              tol |-> tl.val, callback |-> l.callback])
    ELSE Assemble(st, NpArray(st.all_res), [k \in 1..Len(st.all_res) |-> st.all_res[k].inv])

\* BatchEntry with a fault: x0 is not reshaped to (b, -1) for trust-constr
BatchEntryNoFlatten(st) ==
    LET l == st.loc IN
    IF l.x0 = <<>> THEN Raised(st, "IndexError")
    ELSE LET b == Head(l.x0) IN
         BatchStep([st EXCEPT !.loc =
                    [l EXCEPT !.b = b,
                              !.bounds = NormBounds(l.bounds, b),
                              !.args = NormArgs(l.args, b),
                              !.constraints = NormConstraints(l.constraints, b),
                              !.tol = NormTol(l.tol, b)]])

\* lines 116-131
BatchEntry(st) ==
    LET l == st.loc IN
    IF l.x0 = <<>> THEN Raised(st, "IndexError")            \* x0.shape[0] of a 0-d array
    ELSE LET b == Head(l.x0)
             r == IF PyEq(l.method, PyStr("trust-constr"))
                  THEN ReshapeRows(l.x0, b)
                  ELSE [err |-> "", shape |-> l.x0]
         IN  IF r.err # "" THEN Raised(st, r.err)
             ELSE BatchStep([st EXCEPT !.loc =
                    [l EXCEPT !.b = b, !.x0 = r.shape,
                              !.bounds = NormBounds(l.bounds, b),
                              !.args = NormArgs(l.args, b),
                              !.constraints = NormConstraints(l.constraints, b),
                              !.tol = NormTol(l.tol, b)]])

\* lines 148-160
SingleEntry(st) ==
    LET l == st.loc
        x == IF PyEq(l.method, PyStr("trust-constr")) THEN ReshapeFlat(l.x0) ELSE l.x0
    IN  Invoke([st EXCEPT !.loc.x0 = x],
               [x0 |-> [inst |-> 0, shape |-> x],
                args |-> l.args, method |-> l.method, jac |-> l.jac, hess |-> l.hess,
                bounds |-> l.bounds, options |-> l.options,
                constraints |-> l.constraints, tol |-> l.tol, callback |-> l.callback])

\* lines 65-133 (batch) or 65-151 (single): minimize up to its first solver invocation
Entry(st, x0arg, kw) ==
    IF ~Has(kw, "args") THEN Raised(st, "KeyError")                      \* line 65
    ELSE IF Has(kw, "hessp") THEN Raised(st, "NotImplementedError")      \* line 86
    ELSE IF ~Has(kw, "batchwise") THEN Raised(st, "KeyError")            \* line 108
    ELSE LET s1 == ResetMin(Extract(st, x0arg, kw)) IN
         IF Truthy(s1.loc.batchwise) THEN BatchEntry(s1) ELSE SingleEntry(s1)

\* the result object of the current invocation: a flat vector as long as the
\* vector the solver was handed has elements
Result(st, success, message) ==
    [x |-> [inv |-> Len(st.calls), shape |-> <<Prod(st.calls[Len(st.calls)].x0.shape)>>],
     success |-> success, message |-> message]

\* AfterSolve with a fault: the message is kept only for an instance that failed
AfterSolveMsgOnFailure(st, res) ==
    LET m == IF res.success THEN st.msg ELSE Append(st.msg, res.message) IN
    IF Truthy(st.loc.batchwise)
    THEN BatchStep([st EXCEPT !.all_res = Append(@, res.x),
                              !.suc = Append(@, res.success),
                              !.msg = m,
                              !.i = @ + 1])
    ELSE Assemble([st EXCEPT !.suc = Append(@, res.success), !.msg = m],
                  res.x.shape, <<res.x.inv>>)

\* AfterSolve with a fault: a batch stops at the first instance that failed
AfterSolveAbortOnFailure(st, res) ==
    IF Truthy(st.loc.batchwise)
    THEN IF res.success
         THEN BatchStep([st EXCEPT !.all_res = Append(@, res.x),
                                   !.suc = Append(@, res.success),
                                   !.msg = Append(@, res.message),
                                   !.i = @ + 1])
         ELSE Raised(st, "RuntimeError")
    ELSE Assemble([st EXCEPT !.suc = Append(@, res.success),
                             !.msg = Append(@, res.message)],
                  res.x.shape, <<res.x.inv>>)

\* lines 143-146 (batch) or 161-163 (single), then on to the next invocation or the return
AfterSolve(st, res) ==
    IF Truthy(st.loc.batchwise)
    THEN BatchStep([st EXCEPT !.all_res = Append(@, res.x),
                              !.suc = Append(@, res.success),
                              !.msg = Append(@, res.message),
                              !.i = @ + 1])
    ELSE Assemble([st EXCEPT !.suc = Append(@, res.success),
                             !.msg = Append(@, res.message)],
                  res.x.shape, <<res.x.inv>>)

\* ------------------------------------------------------- the state machine
\* what a solver invocation can report: res.success and res.message
Outcomes ==
    {[success |-> TRUE, message |-> "Optimization terminated successfully."],
     [success |-> FALSE, message |-> "Maximum number of iterations has been exceeded."]}

\* what the objective can evaluate to
Values == {Fin(n) : n \in 0..MaxVal} \cup {NaN}

\* the shapes x0 can have: a 0-d tensor, or a leading dimension before the
\* shape of one instance
InstShapes == {<<>>, <<0>>, <<3>>, <<2, 3>>}
Shapes == {<<>>} \cup {<<n>> \o sh : n \in 0..MaxB, sh \in InstShapes}

\* the frame of the call in progress
Cur ==
    [pc |-> pc, err |-> err, min_obj |-> min_obj, loc |-> loc, i |-> i,
     all_res |-> all_res, suc |-> suc, msg |-> msg, ans |-> ans, calls |-> calls,
     resets |-> resets]

Set(st) ==
    /\ pc' = st.pc
    /\ err' = st.err
    /\ min_obj' = st.min_obj
    /\ loc' = st.loc
    /\ i' = st.i
    /\ all_res' = st.all_res
    /\ suc' = st.suc
    /\ msg' = st.msg
    /\ ans' = st.ans
    /\ calls' = st.calls
    /\ resets' = st.resets

Init ==
    /\ min_obj = FloatInf                  \* __init__, line 19
    /\ pc = "idle"
    /\ err = ""
    /\ kwargs = [k \in Keys |-> Absent]
    /\ x0_arg = <<>>
    /\ rets = <<>>
    /\ loc = BlankLoc
    /\ i = 0
    /\ all_res = <<>>
    /\ suc = <<>>
    /\ msg = <<>>
    /\ ans = NoAns
    /\ calls = <<>>
    /\ evals = {}
    /\ resets = 0
    /\ nevals = 0
    /\ last = "__init__"
    /\ ncalls = 0

\* minimize(x0, **kw) is called and runs up to its first solver invocation
minimize(x0arg, kw) ==
    /\ pc = "idle"
    /\ ncalls < MaxCalls
    /\ Set(Entry(Frame(min_obj), x0arg, kw))
    /\ kwargs' = kw
    /\ x0_arg' = x0arg
    /\ rets' = <<>>
    /\ evals' = {}
    /\ nevals' = 0
    /\ last' = "minimize"
    /\ ncalls' = ncalls + 1

\* the solver evaluates the objective: _obj_npy returns y
obj_npy(y) ==
    /\ pc = "solving"
    /\ nevals < MaxEvals
    /\ min_obj' = PyMin(y, min_obj)        \* line 31
    /\ evals' = evals \cup {y}
    /\ nevals' = nevals + 1
    /\ last' = "_obj_npy"
    /\ UNCHANGED <<pc, err, kwargs, x0_arg, loc, i, all_res, suc, msg, ans, calls, rets,
                   resets, ncalls>>

\* the solver evaluates the gradient callback it was handed
jac_npy ==
    /\ pc = "solving"
    /\ nevals < MaxEvals
    /\ calls[Len(calls)].jac = Callable("_jac_npy")
    /\ nevals' = nevals + 1
    /\ last' = "_jac_npy"
    /\ UNCHANGED <<min_obj, pc, err, kwargs, x0_arg, loc, i, all_res, suc, msg, ans,
                   calls, rets, evals, resets, ncalls>>

\* the solver evaluates the Hessian callback it was handed
hess_npy ==
    /\ pc = "solving"
    /\ nevals < MaxEvals
    /\ calls[Len(calls)].hess = Callable("_hess_npy")
    /\ nevals' = nevals + 1
    /\ last' = "_hess_npy"
    /\ UNCHANGED <<min_obj, pc, err, kwargs, x0_arg, loc, i, all_res, suc, msg, ans,
                   calls, rets, evals, resets, ncalls>>

\* the solver returns; minimize runs on to its next solver invocation or to its end
solve_returns(success, message) ==
    /\ pc = "solving"
    /\ Set(AfterSolve(Cur, Result(Cur, success, message)))
    /\ rets' = Append(rets, Result(Cur, success, message))
    /\ nevals' = 0
    /\ last' = "solve_returns"
    /\ UNCHANGED <<kwargs, x0_arg, evals, ncalls>>

\* minimize has returned or raised: its caller goes on and the frame of the call is
\* gone; only the Minimizer object (self.min_obj) is left
call_ends ==
    /\ pc \in {"returned", "raised"}
    /\ pc' = "idle"
    /\ err' = ""
    /\ kwargs' = [k \in Keys |-> Absent]
    /\ x0_arg' = <<>>
    /\ loc' = BlankLoc
    /\ i' = 0
    /\ all_res' = <<>>
    /\ suc' = <<>>
    /\ msg' = <<>>
    /\ ans' = NoAns
    /\ calls' = <<>>
    /\ rets' = <<>>
    /\ evals' = {}
    /\ resets' = 0
    /\ nevals' = 0
    /\ last' = "call_ends"
    /\ UNCHANGED <<min_obj, ncalls>>

\* --- the calls made on the Minimizer: presence of the keys, methods, shapes
MainKwargs ==
    [args : {Absent, PyTuple(<<>>)},
     method : {Absent, PyStr("BFGS"), PyStr("trust-constr")},
     jac : {Absent}, hess : {Absent},
     hessp : {Absent, PyNum(1)},
     bounds : {Absent}, options : {Absent}, constraints : {Absent}, tol : {Absent},
     callback : {Absent},
     batchwise : {Absent, PyBool(TRUE), PyBool(FALSE), PyStr(""), PyStr("yes")}]

Call == \E x0arg \in Shapes, kw \in MainKwargs : minimize(x0arg, kw)
Value == \E y \in Values : obj_npy(y)
Jacobian == jac_npy
Hessian == hess_npy
SolverReturn == \E o \in Outcomes : solve_returns(o.success, o.message)

Next == Call \/ Value \/ Jacobian \/ Hessian \/ SolverReturn \/ call_ends

Spec == Init /\ [][Next]_vars

\* --- the calls made on the Minimizer: every method with every jac and hess option
MethodNames == {"Nelder-Mead", "Powell", "CG", "BFGS", "Newton-CG", "L-BFGS-B", "TNC",
                "COBYLA", "SLSQP", "trust-constr", "dogleg", "trust-ncg",
                "trust-exact", "trust-krylov"}

CapsKwargs ==
    [args : {PyTuple(<<>>)},
     method : {Absent, PyNone} \cup {PyStr(m) : m \in MethodNames},
     jac : {Absent, PyNone, PyBool(TRUE), Callable("user_jac")},
     hess : {Absent, PyNone, PyStr("2-point"), Callable("user_hess")},
     hessp : {Absent},
     bounds : {Absent}, options : {Absent}, constraints : {Absent}, tol : {Absent},
     callback : {Absent},
     batchwise : {PyBool(TRUE), PyBool(FALSE)}]

CallCaps == \E kw \in CapsKwargs : minimize(<<2, 3>>, kw)

NextCaps == CallCaps \/ Value \/ Jacobian \/ Hessian \/ SolverReturn \/ call_ends

SpecCaps == Init /\ [][NextCaps]_vars

\* --- the calls made on the Minimizer: batch calls with bounds, args, constraints
\* and tol absent, a single value, or one value per instance
PerInstance(opt, n) == PyList([k \in 1..n |-> PyTuple(<<PyStr(opt), PyNum(k)>>)])

\* bounds of a problem in three variables: one (min, max) pair per variable
SingleBounds == PyTuple([k \in 1..3 |-> PyTuple(<<PyNum(0), PyNum(1)>>)])

BroadcastKwargs(n) ==
    [args : {PyTuple(<<>>), PyNone, PyTuple(<<PyNum(7)>>), PerInstance("args", n)},
     method : {PyStr("Newton-CG")},
     jac : {Absent}, hess : {Absent}, hessp : {Absent},
     bounds : {Absent, SingleBounds, PerInstance("bounds", n)},
     options : {Absent},
     constraints : {Absent, PyDict, PerInstance("constraints", n)},
     tol : {Absent, PyNum(1), PerInstance("tol", n)},
     callback : {Absent},
     batchwise : {PyBool(TRUE)}]

CallBroadcast == \E n \in 0..MaxB : \E kw \in BroadcastKwargs(n) : minimize(<<n, 3>>, kw)

NextBroadcast == CallBroadcast \/ Value \/ Jacobian \/ Hessian \/ SolverReturn \/ call_ends

SpecBroadcast == Init /\ [][NextBroadcast]_vars

\* ------------------------------------------------------- claims
\* the call in progress is a batch call / its batch size
IsBatch == Truthy(kwargs["batchwise"])
B == x0_arg[1]

\* C1: whenever minimize returns, the solution has exactly the shape of the x0
\* that was passed in.
C1_SolutionShape == pc = "returned" => ans.shape = x0_arg

\* C1 witness: a batch of two instances of shape (2, 3) has been solved and returned.
C1_Witness ==
    /\ pc = "returned"
    /\ IsBatch
    /\ x0_arg = <<2, 2, 3>>
    /\ Len(rets) = 2

\* C2: whenever minimize returns, success and message are equally long: B entries
\* for a batch call (B = 0 included), one entry otherwise.
C2_Lengths ==
    pc = "returned" =>
        /\ Len(suc) = Len(msg)
        /\ Len(suc) = IF IsBatch THEN B ELSE 1

\* C2 witness: a batch call with an empty batch has returned.
C2_Witness ==
    /\ pc = "returned"
    /\ IsBatch
    /\ B = 0
    /\ suc = <<>>

\* C3 (as claimed): a call whose configuration holds 'hessp' ends with
\* NotImplementedError, whatever else is present or absent, before any solver
\* invocation and any objective evaluation.
C3_Claim ==
    (pc # "idle" /\ Has(kwargs, "hessp")) =>
        /\ pc = "raised"
        /\ err = "NotImplementedError"
        /\ calls = <<>>
        /\ evals = {}

\* C6 (as claimed): a call without any configuration option takes the single
\* path, invokes the solver once with the default method and no gradient or
\* Hessian callback, and returns one success flag.
C6_Claim ==
    (pc # "idle" /\ \A k \in Keys : ~Has(kwargs, k)) =>
        /\ pc \in {"solving", "returned"}
        /\ Len(calls) = 1
        /\ calls[1].method = PyNone
        /\ calls[1].jac = PyNone
        /\ calls[1].hess = PyNone
        /\ pc = "returned" => Len(suc) = 1

\* m is the minimum of the set s of objective values (+infinity for no value)
IsMinimum(m, s) ==
    IF s = {} THEN m = FloatInf
    ELSE m \in s /\ \A v \in s : ~Lt(v, m)

\* C7 (as claimed): within a call the tracker is changed by Value only, never
\* increases, and on return is the minimum of the values Value returned.
C7_Claim ==
    [][pc = "solving" =>
          /\ last' \in {"_jac_npy", "_hess_npy"} => min_obj' = min_obj
          /\ ~Lt(min_obj, min_obj')
          /\ pc' = "returned" => IsMinimum(min_obj', evals')]_vars

\* C8 (as claimed): every call resets the tracker once, before its first solver
\* invocation, so that when a call has ended, by return or by exception, the
\* tracker holds +infinity or a value observed during that very call.
C8_Claim ==
    /\ resets <= 1
    /\ calls # <<>> => resets = 1
    /\ pc \in {"returned", "raised"} => (min_obj = FloatInf \/ min_obj \in evals)

\* C9: the solver is invoked once per instance, in ascending batch order, each
\* invocation after the previous one returned; a reported failure neither aborts
\* the call nor repeats or skips an instance; on return row i of the solution,
\* success[i] and message[i] are the outcome of the invocation started from x0[i].
\* A non-batch call invokes the solver once.
C9_OncePerInstance ==
    /\ \A k \in 1..Len(calls) : calls[k].x0.inst = k - 1
    /\ Len(calls) = Len(rets) + (IF pc = "solving" THEN 1 ELSE 0)
    /\ pc = "raised" => calls = <<>>
    /\ pc = "returned" =>
          /\ Len(calls) = IF IsBatch THEN B ELSE 1
          /\ Len(suc) = Len(rets)
          /\ Len(msg) = Len(rets)
          /\ Len(ans.rows) = Len(rets)
          /\ \A k \in 1..Len(rets) :
                /\ suc[k] = rets[k].success
                /\ msg[k] = rets[k].message
                /\ ans.rows[k] = rets[k].x.inv
                /\ calls[rets[k].x.inv].x0.inst = k - 1

\* C9 witness: a batch of two has returned, the first instance having reported
\* failure and the second success.
C9_Witness ==
    /\ pc = "returned"
    /\ IsBatch
    /\ suc = <<FALSE, TRUE>>

\* C10: with method 'trust-constr' the solver is always handed a flat vector: of
\* the length of one instance in a batch call, of the length of x0 otherwise; the
\* solution still gets the shape of x0.  With another method a batch call hands
\* instance i with its own shape.
C10_Flattening ==
    /\ \A k \in 1..Len(calls) :
          IF kwargs["method"] = PyStr("trust-constr")
          THEN calls[k].x0.shape = <<Prod(IF IsBatch THEN Tail(x0_arg) ELSE x0_arg)>>
          ELSE IsBatch => calls[k].x0.shape = Tail(x0_arg)
    /\ (pc = "returned" /\ kwargs["method"] = PyStr("trust-constr")) => ans.shape = x0_arg

\* C10 witness: a trust-constr batch of two instances of shape (2, 3) has returned.
C10_Witness ==
    /\ pc = "returned"
    /\ kwargs["method"] = PyStr("trust-constr")
    /\ IsBatch
    /\ x0_arg = <<2, 2, 3>>
    /\ calls[2].x0.shape = <<6>>

\* what instance idx of a batch of n is to be handed for an option given as
\* given: the default when the option is absent or given as the default, element
\* idx of a sequence of n values, else the one value itself
Expected(given, defaults, default, n, idx) ==
    IF given \in defaults THEN default
    ELSE IF given.t \in {"tuple", "list"} /\ Len(given.v) = n THEN given.v[idx + 1]
    ELSE given

\* C4 (as claimed): in a batch call each of bounds, args, constraints and tol
\* reaches every instance: as the default when absent, as the one value given,
\* or as element i of the B values given.
C4_Claim ==
    (pc # "idle" /\ IsBatch) =>
        /\ pc # "raised"
        /\ \A k \in 1..Len(calls) :
              /\ calls[k].bounds =
                    Expected(kwargs["bounds"], {Absent, PyNone}, PyNone, B, k - 1)
              /\ calls[k].args =
                    Expected(kwargs["args"], {PyTuple(<<>>), PyList(<<>>), PyNone},
                             PyNone, B, k - 1)
              /\ calls[k].constraints =
                    Expected(kwargs["constraints"], {Absent, PyTuple(<<>>)},
                             PyTuple(<<>>), B, k - 1)
              /\ calls[k].tol =
                    Expected(kwargs["tol"], {Absent, PyNone}, PyNone, B, k - 1)

\* the methods the claim names as taking a gradient / a Hessian
C5_Grad == {"CG", "BFGS", "Newton-CG", "L-BFGS-B", "TNC", "SLSQP", "dogleg",
            "trust-ncg", "trust-krylov", "trust-exact", "trust-constr"}
C5_Hess == {"Newton-CG", "dogleg", "trust-ncg", "trust-krylov", "trust-exact",
            "trust-constr"}

\* C5: the solver is handed the adapter's gradient callback exactly when jac is
\* not explicitly None and the method takes a gradient, else None; likewise the
\* adapter's Hessian callback for hess and the methods that take a Hessian.
C5_Callbacks ==
    \A k \in 1..Len(calls) :
        /\ calls[k].jac =
              IF kwargs["jac"] # PyNone /\ (\E m \in C5_Grad : kwargs["method"] = PyStr(m))
              THEN Callable("_jac_npy") ELSE PyNone
        /\ calls[k].hess =
              IF kwargs["hess"] # PyNone /\ (\E m \in C5_Hess : kwargs["method"] = PyStr(m))
              THEN Callable("_hess_npy") ELSE PyNone

\* C5 witness: the solver runs with a method that takes no gradient, the user
\* having passed a jac of their own, and has been handed no gradient callback.
C5_Witness ==
    /\ pc = "solving"
    /\ kwargs["method"] = PyStr("Nelder-Mead")
    /\ kwargs["jac"] = Callable("user_jac")
    /\ calls[1].jac = PyNone

====
